---------------------------- MODULE Spec2Model ----------------------------
(***************************************************************************)
(* Model of the event-handler registry and dispatcher of discordgo         *)
(* (src/unnamed/part_000: AddHandler, AddHandlerOnce,                      *)
(* removeEventHandlerInstance, handle, handleEvent, natsHandler) and of    *)
(* Role.Move (src/roles.go).                                               *)
(*                                                                         *)
(* Go slices are modelled by their visible elements (1-based sequences).   *)
(* Where the code keeps reading a local slice header after append() wrote  *)
(* into its backing array (removeEventHandlerInstance), the local array is *)
(* carried explicitly through the loop.                                    *)
(***************************************************************************)
EXTENDS Integers, Sequences, FiniteSets, TLC

\* ------------------------------------------------------------------ bounds
\* Number of eventHandlerInstance objects ever allocated: with SyncEvents, and
\* without (where every entry of a table costs a goroutine per event).
MaxEntries == 3
MaxGoEntries == 2
\* Entries registered on the session that has one dispatching goroutine.
MaxLoopEntries == 4
\* Number of events ever handed to handleEvent.
MaxEvents == 2

\* Roles of the guild besides the default one.
MaxRole == 3
\* Largest position a role starts at.
MaxPos == 3
\* The highest role ID, and position, of the guild whose roles are in a line.
MaxLineRole == 4

\* ------------------------------------------------------- program constants
interfaceEventType == "__INTERFACE__"

\* Event types with a registered EventInterfaceProvider.
EventTypes == {"MESSAGE_CREATE"}

\* Every value eventHandler.Type() can return.
Tags == {interfaceEventType} \cup EventTypes

\* What a callback does in one invocation: nothing that touches the session
\* ("plain"), or a call of its own removal token ("remove").
Bodies == {"plain", "remove"}

\* Goroutines that call handleEvent.
Dispatchers == {"d1", "d2"}
Rank(d) == IF d = "d1" THEN 1 ELSE 2

\* Where an event comes from: the gateway's event loop, or natsHandler.
Sources == {"gateway", "nats"}

\* Role IDs; the guild's own ID is the ID of its default (@everyone) role.
GuildID == 0
RoleIDs == 0..MaxRole

\* r.Guild.Roles, in slice order.
GuildRoles(pos) == [i \in 1..Cardinality(DOMAIN pos) |-> i - 1]

VARIABLES
    handlers,           \* s.handlers: tag -> slice of *eventHandlerInstance
    onceHandlers,       \* s.onceHandlers: tag -> slice of *eventHandlerInstance
    reg,                \* the eventHandlerInstance objects allocated so far; the index is the pointer
    tokenCalled,        \* entries whose removal token has been invoked
    SyncEvents,         \* s.SyncEvents
    State,              \* s.State != nil
    NATS,               \* s.NATS != nil && s.NatsMode == 1
    natsSubscriptions,  \* keys of the global natsSubscriptions map
    subscribed,         \* subject -> number of successful NATS.QueueSubscribe calls
    readers,            \* goroutines holding s.handlersMu.RLock()
    panicked,           \* "no", or the run-time fault that aborted the process
    disp,               \* per dispatching goroutine: its place in handleEvent / handle
    calls,              \* handler invocations in flight
    events,             \* the events handed to handleEvent so far, by number
    launched,           \* history: every Handle() call made or go statement executed by handle
    position,           \* Role.Position of every role of the guild
    moved               \* the outcome of the last Role.Move call

vars == <<handlers, onceHandlers, reg, tokenCalled, SyncEvents, State, NATS,
          natsSubscriptions, subscribed, readers, panicked, disp, calls,
          events, launched, position, moved>>

regVars == <<handlers, onceHandlers, reg, tokenCalled, SyncEvents, State, NATS,
             natsSubscriptions, subscribed, readers, panicked, disp, calls,
             events, launched>>

roleVars == <<position, moved>>

\* ---------------------------------------------------------------- helpers
Range(s) == {s[k] : k \in 1..Len(s)}

\* Go's s[lo:hi] on a slice seen as a 1-based sequence (lo, hi are Go indices).
Slice(s, lo, hi) == SubSeq(s, lo + 1, hi)

\* The subject AddHandler subscribes to for a handler type.
SubjectOf(t) == IF t = interfaceEventType THEN "*" ELSE t

Subjects == {SubjectOf(t) : t \in Tags}

IdleDisp == [pc |-> "idle", ev |-> 0, t |-> interfaceEventType, ph |-> 1,
             snap |-> <<>>, k |-> 0]


\* --------------------------------------------------------------- registry

\* addEventHandler / addEventHandlerOnce: append ehi to the slice stored under
\* its type; the table passed is s.handlers or s.onceHandlers.
addEventHandler(table, t, ehi) == [table EXCEPT ![t] = Append(@, ehi)]

\* The first loop of removeEventHandlerInstance, from Go index i on. arr is
\* the backing array as the local header `handlers` (length unchanged) sees
\* it, out the value last stored in s.handlers[t].
\* append(handlers[:i], handlers[i+1:]...) shifts the tail left in place and
\* leaves the old last element where it was.
RECURSIVE persistentLoop(_, _, _, _)
persistentLoop(arr, out, i, ehi) ==
    IF i >= Len(arr) THEN [arr |-> arr, out |-> out]
    ELSE IF arr[i + 1] = ehi
         THEN LET res == Slice(arr, 0, i) \o Slice(arr, i + 1, Len(arr))
              IN  persistentLoop(res \o <<arr[Len(arr)]>>, res, i + 1, ehi)
         ELSE persistentLoop(arr, out, i + 1, ehi)

\* The second loop, from Go index i on. oarr is the backing array as the local
\* header `onceHandlers` sees it, harr the local `handlers` after the first
\* loop, out the value last stored in s.onceHandlers[t].
\* The code appends handlers[i+1:], not onceHandlers[i+1:]: slicing faults
\* when i+1 > len(handlers). The append writes in place when the result fits
\* the capacity of onceHandlers: always when it is no longer than the slice,
\* and otherwise as the run-time's growth left it (fits).
RECURSIVE onceLoop(_, _, _, _, _, _)
onceLoop(oarr, harr, out, i, ehi, fits) ==
    IF i >= Len(oarr) THEN [out |-> out, fault |-> FALSE]
    ELSE IF oarr[i + 1] = ehi
         THEN IF i + 1 > Len(harr)
              THEN [out |-> out, fault |-> TRUE]
              ELSE LET res == Slice(oarr, 0, i) \o Slice(harr, i + 1, Len(harr))
                       inPlace == Len(res) <= Len(oarr) \/ fits
                       seen == IF inPlace
                               THEN [k \in 1..Len(oarr) |->
                                        IF k <= Len(res) THEN res[k] ELSE oarr[k]]
                               ELSE oarr
                   IN  onceLoop(seen, harr, res, i + 1, ehi, fits)
         ELSE onceLoop(oarr, harr, out, i + 1, ehi, fits)

\* removeEventHandlerInstance(t, ehi): the two tables it leaves, and whether
\* it panicked (slice bounds out of range) on the way.
removeEventHandlerInstance(t, ehi, fits) ==
    LET p == persistentLoop(handlers[t], handlers[t], 0, ehi)
        o == onceLoop(onceHandlers[t], p.arr, onceHandlers[t], 0, ehi, fits)
    IN  [handlers     |-> [handlers EXCEPT ![t] = p.out],
         onceHandlers |-> [onceHandlers EXCEPT ![t] = o.out],
         fault        |-> o.fault]

\* s.handlersMu.Lock() can be taken: no reader holds the lock. Writers hold it
\* for one atomic step only.
CanLock == readers = {}

\* A goroutine is blocked in s.handlersMu.Lock(): new readers wait behind it.
WriterWaiting == \E c \in calls : c.st = "lock"

Running == panicked = "no"

\* Another eventHandlerInstance may be allocated.
CanRegister == Len(reg) < (IF SyncEvents THEN MaxEntries ELSE MaxGoEntries)

\* AddHandler(handler) for a handler of type t, called from outside any
\* handler. With bridging on it subscribes the subject unless the
\* key is in natsSubscriptions, which is written only when QueueSubscribe
\* returned an error (err).
AddHandler(t, err) ==
    /\ Running
    /\ CanLock
    /\ IF NATS /\ SubjectOf(t) \notin natsSubscriptions
       THEN IF err
            THEN /\ natsSubscriptions' = natsSubscriptions \cup {SubjectOf(t)}
                 /\ UNCHANGED subscribed
            ELSE /\ subscribed' = [subscribed EXCEPT ![SubjectOf(t)] = @ + 1]
                 /\ UNCHANGED natsSubscriptions
       ELSE UNCHANGED <<natsSubscriptions, subscribed>>
    /\ reg' = Append(reg, [tag |-> t, once |-> FALSE])
    /\ handlers' = addEventHandler(handlers, t, Len(reg) + 1)
    /\ UNCHANGED <<onceHandlers, tokenCalled, SyncEvents, State, NATS, readers,
                   panicked, disp, calls, events, launched, roleVars>>

\* AddHandlerOnce(handler): never subscribes.
AddHandlerOnce(t) ==
    /\ Running
    /\ CanLock
    /\ reg' = Append(reg, [tag |-> t, once |-> TRUE])
    /\ onceHandlers' = addEventHandler(onceHandlers, t, Len(reg) + 1)
    /\ UNCHANGED <<handlers, tokenCalled, SyncEvents, State, NATS,
                   natsSubscriptions, subscribed, readers, panicked, disp,
                   calls, events, launched, roleVars>>

\* The effect of the closure returned by addEventHandler(Once) for entry ehi.
Removal(ehi, fits) ==
    LET r == removeEventHandlerInstance(reg[ehi].tag, ehi, fits)
    IN  /\ handlers' = r.handlers
        /\ onceHandlers' = r.onceHandlers
        /\ panicked' = IF r.fault THEN "slice bounds out of range" ELSE "no"
        /\ tokenCalled' = tokenCalled \cup {ehi}

\* The removal token of entry ehi, called from outside any handler.
RemoveToken(ehi, fits) ==
    /\ Running
    /\ ehi \in 1..Len(reg)
    /\ CanLock
    /\ Removal(ehi, fits)
    /\ UNCHANGED <<reg, SyncEvents, State, NATS, natsSubscriptions, subscribed,
                   readers, disp, calls, events, launched, roleVars>>

\* ------------------------------------------------------------- dispatcher

\* handleEvent with its two handle() calls exchanged.
TypeOfPassSwapped(ph, t) == IF ph = 1 THEN t ELSE interfaceEventType

\* The type handleEvent passes to its first and to its second handle() call.
TypeOfPass(ph, t) == IF ph = 1 THEN interfaceEventType ELSE t

\* The type handle() was called with, for the pass d is in.
HandleType(d) == TypeOfPass(disp[d].ph, disp[d].t)

\* A message reaches natsHandler only through a subscription that was made.
Delivered(t) == NATS /\ (subscribed[SubjectOf(t)] > 0 \/ subscribed["*"] > 0)

\* A range loop of handle() that has no element left is left at once: to the
\* test of len(s.onceHandlers[t]) after the persistent handlers, to the
\* assignment s.onceHandlers[t] = nil after the once handlers.
LoopExit(rec) ==
    IF rec.pc = "iterP" /\ rec.k >= Len(rec.snap) THEN [rec EXCEPT !.pc = "checkOnce"]
    ELSE IF rec.pc = "iterO" /\ rec.k >= Len(rec.snap) THEN [rec EXCEPT !.pc = "clearOnce"]
    ELSE rec

\* The record of d on entering handle(t, i) for pass ph: the range statement
\* over s.handlers[t] evaluates the slice once.
EnterHandle(d, ph) ==
    LoopExit([disp[d] EXCEPT !.pc = "iterP", !.ph = ph, !.k = 0,
                             !.snap = handlers[TypeOfPass(ph, disp[d].t)]])

\* handleEvent(t, i) is called by goroutine d (the dispatching goroutines are
\* interchangeable: the first idle one) and takes s.handlersMu.RLock(). The
\* gateway (src) calls it with a decoded event; natsHandler calls it for
\* every subject with a registered provider, whether json.Unmarshal
\* succeeded (decoded) or not.
handleEventBegin(d, t, src, decoded) ==
    /\ Running
    /\ disp[d].pc = "idle"
    /\ \A d2 \in Dispatchers : disp[d2].pc = "idle" => Rank(d) <= Rank(d2)
    /\ Len(events) < MaxEvents
    /\ ~WriterWaiting
    /\ IF src = "nats" THEN Delivered(t) ELSE decoded
    /\ readers' = readers \cup {d}
    /\ events' = Append(events, [t |-> t, src |-> src, decoded |-> decoded,
                                 removed |-> tokenCalled, nreg |-> Len(reg),
                                 hook |-> FALSE, done |-> FALSE])
    /\ disp' = [disp EXCEPT ![d] = [pc |-> "locked", ev |-> Len(events) + 1,
                                    t |-> t, ph |-> 1, snap |-> <<>>, k |-> 0]]
    /\ UNCHANGED <<handlers, onceHandlers, reg, tokenCalled, SyncEvents, State,
                   NATS, natsSubscriptions, subscribed, panicked, calls,
                   launched, roleVars>>

\* handleEvent without its call of s.onInterface(i).
HookCalledNever == FALSE

\* handleEvent: if s.State != nil, s.onInterface(i) is called.
HookCalled == State

\* handleEvent: if s.State != nil { s.onInterface(i) }, which returns after
\* s.State.OnInterface returned; then s.handle(interfaceEventType, i) is
\* entered.
onInterface(d) ==
    /\ Running
    /\ disp[d].pc = "locked"
    /\ events' = [events EXCEPT ![disp[d].ev].hook = HookCalled]
    /\ disp' = [disp EXCEPT ![d] = EnterHandle(d, 1)]
    /\ UNCHANGED <<handlers, onceHandlers, reg, tokenCalled, SyncEvents, State,
                   NATS, natsSubscriptions, subscribed, readers, panicked,
                   calls, launched, roleVars>>

\* The history entry of the element at Go index disp[d].k of the slice that
\* d ranges over.
Launch(d, pass) ==
    [h |-> disp[d].snap[disp[d].k + 1], ev |-> disp[d].ev, tag |-> HandleType(d),
     pass |-> pass, k |-> disp[d].k]

\* One iteration of a range loop of handle(): eh.eventHandler.Handle(s, i) is
\* called (SyncEvents) or started with a go statement.
Invoke(d, pass) ==
    LET l == Launch(d, pass)
    IN  /\ launched' = launched \cup {l}
        /\ IF SyncEvents
           THEN /\ calls' = calls \cup
                        {[h |-> l.h, ev |-> l.ev, tag |-> l.tag, pass |-> pass,
                          k |-> l.k, st |-> "running", on |-> d]}
                /\ disp' = [disp EXCEPT ![d].pc = "inHandler"]
           ELSE /\ calls' = calls \cup
                        {[h |-> l.h, ev |-> l.ev, tag |-> l.tag, pass |-> pass,
                          k |-> l.k, st |-> "spawned", on |-> "go"]}
                /\ disp' = [disp EXCEPT ![d] = LoopExit([disp[d] EXCEPT !.k = @ + 1])]

\* handle(): for _, eh := range s.handlers[t] { ... }
iterPersistent(d) ==
    /\ Running
    /\ disp[d].pc = "iterP"
    /\ Invoke(d, "persistent")
    /\ UNCHANGED <<handlers, onceHandlers, reg, tokenCalled, SyncEvents, State,
                   NATS, natsSubscriptions, subscribed, readers, panicked,
                   events, roleVars>>

\* The record of d after handle() returned: the second handle() call of
\* handleEvent, or its deferred RUnlock.
LeaveHandle(d) ==
    IF disp[d].ph = 1 THEN EnterHandle(d, 2)
    ELSE [disp[d] EXCEPT !.pc = "unlock", !.snap = <<>>, !.k = 0]

\* handle(): if len(s.onceHandlers[t]) > 0 {
checkOnce(d) ==
    /\ Running
    /\ disp[d].pc = "checkOnce"
    /\ disp' = [disp EXCEPT ![d] =
                    IF Len(onceHandlers[HandleType(d)]) > 0
                    THEN [disp[d] EXCEPT !.pc = "rangeOnce"]
                    ELSE LeaveHandle(d)]
    /\ UNCHANGED <<handlers, onceHandlers, reg, tokenCalled, SyncEvents, State,
                   NATS, natsSubscriptions, subscribed, readers, panicked,
                   calls, events, launched, roleVars>>

\* handle(): for _, eh := range s.onceHandlers[t] reads the map a second time.
rangeOnce(d) ==
    /\ Running
    /\ disp[d].pc = "rangeOnce"
    /\ disp' = [disp EXCEPT ![d] =
                    LoopExit([disp[d] EXCEPT !.pc = "iterO", !.k = 0,
                                            !.snap = onceHandlers[HandleType(d)]])]
    /\ UNCHANGED <<handlers, onceHandlers, reg, tokenCalled, SyncEvents, State,
                   NATS, natsSubscriptions, subscribed, readers, panicked,
                   calls, events, launched, roleVars>>

\* handle(): one iteration of the loop over the once handlers.
iterOnce(d) ==
    /\ Running
    /\ disp[d].pc = "iterO"
    /\ Invoke(d, "once")
    /\ UNCHANGED <<handlers, onceHandlers, reg, tokenCalled, SyncEvents, State,
                   NATS, natsSubscriptions, subscribed, readers, panicked,
                   events, roleVars>>

\* handle(): s.onceHandlers[t] = nil, a map write made under the read lock,
\* and handle() returns.
clearOnce(d) ==
    /\ Running
    /\ disp[d].pc = "clearOnce"
    /\ onceHandlers' = [onceHandlers EXCEPT ![HandleType(d)] = <<>>]
    /\ disp' = [disp EXCEPT ![d] = LeaveHandle(d)]
    /\ UNCHANGED <<handlers, reg, tokenCalled, SyncEvents, State, NATS,
                   natsSubscriptions, subscribed, readers, panicked, calls,
                   events, launched, roleVars>>

\* d is about to write s.onceHandlers while another goroutine is about to
\* read or write it: nothing orders the two accesses, and the Go run-time may
\* catch them overlapping and abort ("concurrent map read and map write",
\* "concurrent map writes").
mapFault(d) ==
    /\ Running
    /\ disp[d].pc = "clearOnce"
    /\ \E d2 \in Dispatchers \ {d} :
            disp[d2].pc \in {"checkOnce", "rangeOnce", "clearOnce"}
    /\ panicked' = "concurrent map access"
    /\ UNCHANGED <<handlers, onceHandlers, reg, tokenCalled, SyncEvents, State,
                   NATS, natsSubscriptions, subscribed, readers, disp, calls,
                   events, launched, roleVars>>

\* handleEvent returns: the deferred s.handlersMu.RUnlock().
handleEventEnd(d) ==
    /\ Running
    /\ disp[d].pc = "unlock"
    /\ readers' = readers \ {d}
    /\ events' = [events EXCEPT ![disp[d].ev].done = TRUE]
    /\ disp' = [disp EXCEPT ![d] = IdleDisp]
    /\ UNCHANGED <<handlers, onceHandlers, reg, tokenCalled, SyncEvents, State,
                   NATS, natsSubscriptions, subscribed, panicked, calls,
                   launched, roleVars>>

\* ---------------------------------------------------------------- handlers

\* The dispatcher records after invocation c returned: a synchronous call
\* returns into the loop that made it.
Returned(c) ==
    IF c.on \in Dispatchers
    THEN [disp EXCEPT ![c.on] =
            LoopExit([disp[c.on] EXCEPT
                        !.pc = IF c.pass = "persistent" THEN "iterP" ELSE "iterO",
                        !.k = @ + 1])]
    ELSE disp

\* Invocation c, holding the write lock, runs removeEventHandlerInstance for
\* its own entry and returns.
RemoveSelf(c, fits) ==
    /\ Removal(c.h, fits)
    /\ calls' = calls \ {c}
    /\ disp' = Returned(c)

\* The handler of invocation c runs (for a go statement: its goroutine has
\* started) and does b: a plain one returns; one that calls its removal token
\* enters removeEventHandlerInstance, where s.handlersMu.Lock() either is
\* granted at once or makes it wait.
handlerRun(c, b, fits) ==
    /\ Running
    /\ c \in calls
    /\ c.st \in {"spawned", "running"}
    /\ IF b = "remove"
       THEN IF CanLock
            THEN RemoveSelf(c, fits)
            ELSE /\ calls' = (calls \ {c}) \cup {[c EXCEPT !.st = "lock"]}
                 /\ UNCHANGED <<handlers, onceHandlers, tokenCalled, panicked, disp>>
       ELSE /\ calls' = calls \ {c}
            /\ disp' = Returned(c)
            /\ UNCHANGED <<handlers, onceHandlers, tokenCalled, panicked>>
    /\ UNCHANGED <<reg, SyncEvents, State, NATS, natsSubscriptions, subscribed,
                   readers, events, launched, roleVars>>

\* A handler waiting in s.handlersMu.Lock() gets the lock,
\* removeEventHandlerInstance runs, and the handler returns.
handlerRemove(c, fits) ==
    /\ Running
    /\ c \in calls
    /\ c.st = "lock"
    /\ CanLock
    /\ RemoveSelf(c, fits)
    /\ UNCHANGED <<reg, SyncEvents, State, NATS, natsSubscriptions, subscribed,
                   readers, events, launched, roleVars>>

\* -------------------------------------------------------------- Role.Move

\* A Role.IsDefault() that holds of no role.
IsDefaultNever(r) == FALSE

\* r.IsDefault(): r.ID == r.Guild.ID.
IsDefault(r) == r = GuildID

\* Roles.Less(i, j), on the roles themselves.
Less(pos, a, b) == pos[a] > pos[b]

\* The ordering of sort.Sort(editedRoles), made without sort.Reverse.
ReverseLessDropped(pos, a, b) == Less(pos, a, b)

\* sort.Reverse(editedRoles).Less(i, j) is editedRoles.Less(j, i).
ReverseLess(pos, a, b) == Less(pos, b, a)

\* The orders sort.Sort(sort.Reverse(editedRoles)) can leave the collected
\* roles in: sort.Sort is not stable, so roles with equal positions may end
\* in either order.
Sorted(edited, pos) ==
    {s \in [1..Len(edited) -> Range(edited)] :
        /\ \A i, j \in 1..Len(edited) : i < j =>
              /\ s[i] # s[j]
              /\ ~ReverseLess(pos, s[j], s[i])}

\* The loop over r.Guild.Roles without its test of role.Position.
CollectedAll(r, lo, hi, pos) ==
    SelectSeq(GuildRoles(pos), LAMBDA x : x # r)

\* The loop over r.Guild.Roles that collects the other roles in [min, max].
Collected(r, lo, hi, pos) ==
    SelectSeq(GuildRoles(pos), LAMBDA x : x # r /\ pos[x] <= hi /\ pos[x] >= lo)

Min2(a, b) == IF a < b THEN a ELSE b
Max2(a, b) == IF a > b THEN a ELSE b

\* The two tests with the first one made as position < 0.
PrecheckNegative(r, target) ==
    IF target < 0 THEN "ErrRolePositionBounds"
    ELSE IF r = GuildID THEN "ErrUnmovableDefaultRole"
    ELSE "nil"

\* The two tests Role.Move starts with: the error it returns at once, or "nil".
Precheck(r, target) ==
    IF target <= 0 THEN "ErrRolePositionBounds"
    ELSE IF IsDefault(r) THEN "ErrUnmovableDefaultRole"
    ELSE "nil"

\* Role.Move with its two tests made after the positions were assigned.
MoveLateCheck(r, target, pos, sorted, remoteErr) ==
    LET lo == Min2(target, pos[r])
        hi == Max2(target, pos[r])
        editedRoles == IF target = lo THEN <<r>> \o sorted
                       ELSE Append(sorted, r)
        n == Min2(Len(editedRoles), hi + 1 - lo + 1)
    IN  [err |-> IF Precheck(r, target) # "nil" THEN Precheck(r, target)
                 ELSE IF remoteErr THEN "RemoteError" ELSE "nil",
         position |-> [x \in DOMAIN pos |->
                         IF \E i \in 1..n : editedRoles[i] = x
                         THEN lo + (CHOOSE i \in 1..n : editedRoles[i] = x) - 1
                         ELSE pos[x]],
         edits |-> [i \in 1..n |-> <<editedRoles[i], lo + i - 1>>],
         sent |-> Precheck(r, target) = "nil"]

\* Role.Move(position) on role r with the collected roles sorted as `sorted`
\* and GuildRoleReorder failing or not (remoteErr): the error returned, the
\* positions left in memory, the edits handed to GuildRoleReorder.
Move(r, target, pos, sorted, remoteErr) ==
    IF Precheck(r, target) # "nil"
    THEN [err |-> Precheck(r, target), position |-> pos, edits |-> <<>>,
          sent |-> FALSE]
    ELSE LET lo == Min2(target, pos[r])
             hi == Max2(target, pos[r])
             editedRoles == IF target = lo THEN <<r>> \o sorted
                            ELSE Append(sorted, r)
             n == Min2(Len(editedRoles), hi + 1 - lo + 1)
             edits == [i \in 1..n |-> <<editedRoles[i], lo + i - 1>>]
         IN  [err |-> IF remoteErr THEN "RemoteError" ELSE "nil",
              position |-> [x \in DOMAIN pos |->
                              IF \E i \in 1..n : editedRoles[i] = x
                              THEN lo + (CHOOSE i \in 1..n : editedRoles[i] = x) - 1
                              ELSE pos[x]],
              edits |-> edits,
              sent |-> TRUE]

NoMove == [role |-> GuildID, target |-> 0, err |-> "none", edits |-> <<>>,
           sent |-> FALSE, before |-> [x \in RoleIDs |-> 0]]

\* A call r.Move(target).
RoleMove(r, target, remoteErr) ==
    \E sorted \in Sorted(Collected(r, Min2(target, position[r]),
                                   Max2(target, position[r]), position), position) :
        LET m == Move(r, target, position, sorted, remoteErr)
        IN  /\ \A x \in DOMAIN position : m.position[x] <= MaxPos + 1
            /\ position' = m.position
            /\ moved' = [role |-> r, target |-> target, err |-> m.err,
                         edits |-> m.edits, sent |-> m.sent, before |-> position]
            /\ UNCHANGED regVars

\* ---------------------------------------------------------- specifications

InitRegistry ==
    /\ handlers = [t \in Tags |-> <<>>]
    /\ onceHandlers = [t \in Tags |-> <<>>]
    /\ reg = <<>>
    /\ tokenCalled = {}
    /\ natsSubscriptions = {}
    /\ subscribed = [x \in Subjects |-> 0]
    /\ readers = {}
    /\ panicked = "no"
    /\ disp = [d \in Dispatchers |-> IdleDisp]
    /\ calls = {}
    /\ events = <<>>
    /\ launched = {}

Init ==
    /\ InitRegistry
    /\ SyncEvents \in BOOLEAN
    /\ State \in BOOLEAN
    /\ NATS = FALSE
    /\ position = [x \in RoleIDs |-> x]
    /\ moved = NoMove

Next ==
    \/ \E t \in Tags, err \in BOOLEAN : CanRegister /\ AddHandler(t, err)
    \/ \E t \in Tags : CanRegister /\ AddHandlerOnce(t)
    \/ \E ehi \in 1..MaxEntries, fits \in BOOLEAN : RemoveToken(ehi, fits)
    \/ \E d \in Dispatchers, t \in EventTypes, src \in Sources, decoded \in BOOLEAN :
            handleEventBegin(d, t, src, decoded)
    \/ \E d \in Dispatchers : onInterface(d)
    \/ \E d \in Dispatchers : iterPersistent(d)
    \/ \E d \in Dispatchers : checkOnce(d)
    \/ \E d \in Dispatchers : rangeOnce(d)
    \/ \E d \in Dispatchers : iterOnce(d)
    \/ \E d \in Dispatchers : clearOnce(d)
    \/ \E d \in Dispatchers : mapFault(d)
    \/ \E d \in Dispatchers : handleEventEnd(d)
    \/ \E c \in calls, b \in Bodies, fits \in BOOLEAN : handlerRun(c, b, fits)
    \/ \E c \in calls, fits \in BOOLEAN : handlerRemove(c, fits)

Spec == Init /\ [][Next]_vars

InitMove ==
    /\ InitRegistry
    /\ SyncEvents = FALSE
    /\ State = TRUE
    /\ NATS = FALSE
    /\ position \in [RoleIDs -> 0..MaxPos]
    /\ moved = NoMove

NextMove ==
    \E r \in RoleIDs, target \in (0 - 1)..(MaxPos + 1), remoteErr \in BOOLEAN :
        RoleMove(r, target, remoteErr)

SpecMove == InitMove /\ [][NextMove]_vars

\* A guild whose roles hold the positions 0, 1, 2, ... one each, the default
\* role at 0.
InitLine ==
    /\ InitRegistry
    /\ SyncEvents = FALSE
    /\ State = TRUE
    /\ NATS = FALSE
    /\ position = [x \in 0..MaxLineRole |-> x]
    /\ moved = NoMove

NextLine ==
    \E r \in 0..MaxLineRole, target \in (0 - 1)..(MaxLineRole + 1), remoteErr \in BOOLEAN :
        RoleMove(r, target, remoteErr)

SpecLine == InitLine /\ [][NextLine]_vars

\* A session in synchronous mode whose events all come from the one goroutine
\* of the gateway's event loop, with handlers that return without calling
\* the registry.
InitLoop ==
    /\ InitRegistry
    /\ SyncEvents = TRUE
    /\ State = TRUE
    /\ NATS = FALSE
    /\ position = [x \in RoleIDs |-> x]
    /\ moved = NoMove

NextLoop ==
    \/ \E t \in Tags : Len(reg) < MaxLoopEntries /\ AddHandler(t, FALSE)
    \/ \E t \in Tags : Len(reg) < MaxLoopEntries /\ AddHandlerOnce(t)
    \/ \E ehi \in 1..MaxLoopEntries, fits \in BOOLEAN : RemoveToken(ehi, fits)
    \/ \E t \in EventTypes : handleEventBegin("d1", t, "gateway", TRUE)
    \/ onInterface("d1")
    \/ iterPersistent("d1")
    \/ checkOnce("d1")
    \/ rangeOnce("d1")
    \/ iterOnce("d1")
    \/ clearOnce("d1")
    \/ handleEventEnd("d1")
    \/ \E c \in calls, fits \in BOOLEAN : handlerRun(c, "plain", fits)

SpecLoop == InitLoop /\ [][NextLoop]_vars

InitBridge ==
    /\ InitRegistry
    /\ SyncEvents \in BOOLEAN
    /\ State = TRUE
    /\ NATS = TRUE
    /\ position = [x \in RoleIDs |-> x]
    /\ moved = NoMove

SpecBridge == InitBridge /\ [][Next]_vars

\* ------------------------------------------------------------------ claims

\* Entry h is registered under a type that handleEvent(t, i) dispatches to.
Matches(h, t) == reg[h].tag = interfaceEventType \/ reg[h].tag = t

\* The invocations of entry h made so far.
Launches(h) == {l \in launched : l.h = h}

\* s with every occurrence of x left out.
Without(s, x) == SelectSeq(s, LAMBDA y : y # x)

\* C1: every handler H registered persistently under T is invoked by a
\* dispatch under T, and once H's removal token has returned no dispatch
\* that starts afterwards invokes H.
C1_PersistentInvokedUntilRemoved ==
    /\ \A e \in 1..Len(events) : \A h \in 1..Len(reg) :
          (/\ events[e].done
           /\ h <= events[e].nreg
           /\ ~reg[h].once
           /\ h \notin tokenCalled
           /\ Matches(h, events[e].t))
          => \E l \in launched : l.h = h /\ l.ev = e
    /\ \A l \in launched :
          ~reg[l.h].once => l.h \notin events[l.ev].removed

\* C2: a once handler registered under T and never removed is invoked exactly
\* once over the dispatches under T: never twice, and not zero times once a
\* dispatch that started after its registration has completed.
C2_OnceExactlyOnce ==
    \A h \in 1..Len(reg) :
        (reg[h].once /\ h \notin tokenCalled) =>
            /\ Cardinality(Launches(h)) <= 1
            /\ (\E e \in 1..Len(events) :
                    events[e].done /\ h <= events[e].nreg /\ Matches(h, events[e].t))
               => Cardinality(Launches(h)) >= 1

\* C3: a handler that calls a removal token during its own invocation never
\* deadlocks: no handler waits for the write lock of s.handlersMu on a
\* goroutine that holds its read lock until the handler returns.
C3_HandlerNeverDeadlocks ==
    \A c \in calls : ~(c.st = "lock" /\ c.on \in readers)

\* Invocation l has started running: it was launched, and it is not a
\* goroutine that has yet to be scheduled.
Started(l) ==
    /\ l \in launched
    /\ ~\E c \in calls :
          /\ c.st = "spawned"
          /\ c.h = l.h /\ c.ev = l.ev /\ c.tag = l.tag /\ c.pass = l.pass /\ c.k = l.k

\* C4 as stated: for every dispatched event the state-update hook has
\* completed before any handler of that event is invoked.
C4_HookAlwaysBeforeHandlers ==
    \A l \in launched : events[l.ev].hook

\* C4: when the session has a State, s.onInterface(i) has returned before
\* any wildcard or typed handler of the same event is invoked, in synchronous
\* and in concurrent mode alike; with s.State nil the hook is not called.
C4_HookBeforeHandlers ==
    /\ State => \A l \in launched : events[l.ev].hook
    /\ ~State => \A e \in 1..Len(events) : ~events[e].hook

\* A typed handler was started with a go statement on a session with a State.
C4_Witness ==
    /\ State
    /\ ~SyncEvents
    /\ \E l \in launched : l.tag # interfaceEventType /\ events[l.ev].hook

\* C5 as stated: in concurrent mode no typed handler of an event has started
\* running while a wildcard handler of the same event has not.
C5_TypedStartsAfterWildcardStarted ==
    ~SyncEvents =>
        \A l, w \in launched :
            (/\ l.ev = w.ev
             /\ l.tag # interfaceEventType
             /\ w.tag = interfaceEventType
             /\ Started(l))
            => Started(w)

\* C5: in concurrent mode the go statements of one event are ordered by
\* phase: no wildcard handler of an event is launched after a typed handler
\* of the same event was launched.
C5_PhasesOrdered ==
    [][~SyncEvents =>
        \A w \in launched' \ launched :
            w.tag = interfaceEventType =>
                ~\E l \in launched : l.ev = w.ev /\ l.tag # interfaceEventType]_vars

\* In concurrent mode one event had a wildcard and a typed handler launched.
C5_Witness ==
    /\ ~SyncEvents
    /\ \E l, w \in launched :
          /\ l.ev = w.ev
          /\ l.tag # interfaceEventType
          /\ w.tag = interfaceEventType

\* C6: each entry is in at most one of the two tables of its type, and at
\* most once in it.
C6_EntryInOnePlace ==
    \A t \in Tags :
        /\ Range(handlers[t]) \cap Range(onceHandlers[t]) = {}
        /\ Cardinality(Range(handlers[t])) = Len(handlers[t])
        /\ Cardinality(Range(onceHandlers[t])) = Len(onceHandlers[t])

\* C7: in every state the registry reaches, the removal token of an entry E
\* (when it returns) removes exactly E: E is in neither table afterwards, and
\* every other entry of every type stays in its table, in the same order.
C7_RemovalRemovesExactlyE ==
    \A ehi \in 1..Len(reg) : \A fits \in BOOLEAN :
        LET r == removeEventHandlerInstance(reg[ehi].tag, ehi, fits)
        IN  ~r.fault =>
                \A t \in Tags :
                    /\ r.handlers[t] = Without(handlers[t], ehi)
                    /\ r.onceHandlers[t] = Without(onceHandlers[t], ehi)

\* C8: no registry operation (removal token, registration, dispatch) aborts
\* the process with a run-time fault.
C8_NoFault == panicked = "no"

\* C9 as stated: Move on the default role fails with ErrUnmovableDefaultRole
\* for every target position, the non-positive ones included.
C9_DefaultAlwaysUnmovable ==
    (moved.err # "none" /\ moved.role = GuildID) =>
        moved.err = "ErrUnmovableDefaultRole"

\* C9: Move on the default role fails with ErrUnmovableDefaultRole for every
\* target position > 0, the role's current position included, and with
\* ErrRolePositionBounds for every target position <= 0; it changes no
\* position and sends no edit.
C9_DefaultUnmovable ==
    (moved.err # "none" /\ moved.role = GuildID) =>
        /\ moved.err = IF moved.target > 0 THEN "ErrUnmovableDefaultRole"
                       ELSE "ErrRolePositionBounds"
        /\ ~moved.sent
        /\ position = moved.before

\* The default role was moved to the position it is at.
C9_Witness ==
    /\ moved.role = GuildID
    /\ moved.target = moved.before[GuildID]
    /\ moved.err = "ErrUnmovableDefaultRole"

\* C10: Move with a target position <= 0 fails with ErrRolePositionBounds for
\* every role, the default one included, whatever the positions of the roles
\* are; it changes no position and sends no edit.
C10_NonPositiveBounds ==
    (moved.err # "none" /\ moved.target <= 0) =>
        /\ moved.err = "ErrRolePositionBounds"
        /\ ~moved.sent
        /\ position = moved.before

\* A role other than the default one was moved to position 0 while roles
\* share a position.
C10_Witness ==
    /\ moved.err = "ErrRolePositionBounds"
    /\ moved.role # GuildID
    /\ moved.target = 0
    /\ \E x, y \in RoleIDs : x # y /\ moved.before[x] = moved.before[y]


\* The bounds min and max of the last Role.Move call.
MovedLo == Min2(moved.target, moved.before[moved.role])
MovedHi == Max2(moved.target, moved.before[moved.role])

\* The roles of the affected range of the last call: the moved role and the
\* roles whose position before the call lay in [min, max].
Affected ==
    {x \in DOMAIN position : moved.before[x] >= MovedLo /\ moved.before[x] <= MovedHi}

\* The last Role.Move call was made on a role other than the default one and
\* returned nil.
MoveSucceeded ==
    moved.err = "nil" /\ moved.role # GuildID

\* C11: after a successful Move(target) on a role other than the default
\* one, whatever the positions were, the moved role is at target and the
\* roles of the affected range hold pairwise distinct, contiguous positions.
C11_MovedAtTargetContiguous ==
    MoveSucceeded =>
        /\ position[moved.role] = moved.target
        /\ \A x, y \in Affected : x # y => position[x] # position[y]
        /\ \A x, y \in Affected : \A p \in position[x]..position[y] :
              \E z \in Affected : position[z] = p


\* The roles are in the line 0, 1, 2, 3, 4 and the role at position 2 was
\* moved to position 4.
LineTwoToFour ==
    /\ moved.sent
    /\ moved.before = [x \in 0..MaxLineRole |-> x]
    /\ moved.before[moved.role] = 2
    /\ moved.target = 4

\* The role that was at position p before the last call.
idAt(p) == CHOOSE x \in DOMAIN moved.before : moved.before[x] = p

\* C12 as stated: with roles at positions [0,1,2,3,4], moving the role at 2
\* to 4 produces the edits (idAt4 -> 2), (idAt3 -> 3), (moved -> 4), the
\* other roles in position-descending order.
C12_EditsDescending ==
    LineTwoToFour =>
        moved.edits = <<<<idAt(4), 2>>, <<idAt(3), 3>>, <<moved.role, 4>>>>

\* C12: moving toward the high end assigns the other collected roles in
\* position-ascending order from min upward, with the moved role last: with
\* roles at positions [0,1,2,3,4], moving the role at 2 to 4 produces the
\* edits (idAt3 -> 2), (idAt4 -> 3), (moved -> 4), in that order.
C12_EditsAscending ==
    /\ LineTwoToFour =>
          moved.edits = <<<<idAt(3), 2>>, <<idAt(4), 3>>, <<moved.role, 4>>>>
    /\ (moved.sent /\ moved.target # MovedLo) =>
          /\ \A i \in 1..Len(moved.edits) :
                /\ moved.edits[i][2] = MovedLo + i - 1
                /\ moved.edits[i][1] = moved.role => i = Len(moved.edits)
          /\ \A i, j \in 1..Len(moved.edits) :
                (i < j /\ moved.edits[j][1] # moved.role) =>
                    moved.before[moved.edits[i][1]] <= moved.before[moved.edits[j][1]]

\* The role at position 2 of the line was moved to position 4 and
\* GuildRoleReorder succeeded.
C12_Witness ==
    LineTwoToFour /\ moved.err = "nil" /\ Len(moved.edits) = 3


\* The position maps that r.Move(target) can leave when GuildRoleReorder
\* succeeds, one per order the sort can produce.
AfterMove(r, target, pos) ==
    {Move(r, target, pos, sorted, FALSE).position :
        sorted \in Sorted(Collected(r, Min2(target, pos[r]), Max2(target, pos[r]), pos), pos)}

\* C13: after a successful r.Move(T) on a role r other than the default one
\* that was at a position P > 0, whatever the positions were, a successful
\* r.Move(P) leaves every role of the affected range with the position it had
\* before the first call.
C13_RoundTrip ==
    (MoveSucceeded /\ moved.before[moved.role] > 0) =>
        \A p2 \in AfterMove(moved.role, moved.before[moved.role], position) :
            \A x \in Affected : p2[x] = moved.before[x]


\* Event e came from natsHandler with a payload json.Unmarshal rejected.
DecodeFailed(e) == events[e].src = "nats" /\ ~events[e].decoded

\* C14: a bridge message of a known type that fails to decode is dropped:
\* the state-update hook is not called for it, no wildcard or typed handler
\* is invoked for it, and so no once handler is consumed by it.
C14_DecodeFailureDropped ==
    \A e \in 1..Len(events) :
        DecodeFailed(e) =>
            /\ ~events[e].hook
            /\ ~\E l \in launched : l.ev = e


\* Some handler, persistent or once, was registered for type t.
Registered(t) == \E h \in 1..Len(reg) : reg[h].tag = t

\* C15: with bridging on and no QueueSubscribe call having failed for the
\* subject of a type, there is exactly one subscription for every type some
\* handler was registered for, whether with AddHandler or AddHandlerOnce,
\* however many registrations were made.
C15_OneSubscriptionPerTag ==
    NATS =>
        \A t \in Tags :
            (Registered(t) /\ SubjectOf(t) \notin natsSubscriptions) =>
                subscribed[SubjectOf(t)] = 1


\* Invocations l1 and l2 were made by the same loop of one handle() call.
SameLoop(l1, l2) ==
    l1.ev = l2.ev /\ l1.tag = l2.tag /\ l1.pass = l2.pass

\* C16: in synchronous mode the handlers of one table are invoked by a
\* dispatch in registration order, one at a time, each after the previous
\* one returned, and the dispatch returns only after all have returned.
C16_SyncInOrder ==
    SyncEvents =>
        /\ \A l1, l2 \in launched :
              (SameLoop(l1, l2) /\ l1.k < l2.k) => l1.h < l2.h
        /\ \A c1, c2 \in calls : c1.ev = c2.ev => c1 = c2
        /\ \A c \in calls : ~events[c.ev].done


\* Entry ehi was removed before: its removal token has been called and has
\* returned, or it is a once entry that a completed dispatch has fired.
RemovedBefore(ehi) ==
    \/ ehi \in tokenCalled
    \/ /\ reg[ehi].once
       /\ \E l \in launched : l.h = ehi /\ l.pass = "once" /\ events[l.ev].done

\* C17: removal is idempotent: calling the removal token of an entry that
\* was removed before returns and leaves both tables of every type exactly
\* as they were.
C17_RemovalIdempotent ==
    Running =>
        \A ehi \in 1..Len(reg) : \A fits \in BOOLEAN :
            RemovedBefore(ehi) =>
                LET r == removeEventHandlerInstance(reg[ehi].tag, ehi, fits)
                IN  /\ ~r.fault
                    /\ r.handlers = handlers
                    /\ r.onceHandlers = onceHandlers


\* The handler of invocation c is executing: it was called, or its goroutine
\* has started, and it has not returned.
Executing(c) == c \in calls /\ c.st \in {"running", "lock"}

\* C18: the goroutine dispatching an event does not hold s.handlersMu, in
\* read or in write mode, while a handler it invoked for the event is
\* executing, and the goroutine that is about to clear the once table does
\* not hold the lock in read mode only.
C18_LockReleasedBeforeCallbacks ==
    /\ \A c \in calls :
          Executing(c) => \A d \in readers : disp[d].ev # c.ev
    /\ \A d \in Dispatchers :
          disp[d].pc = "clearOnce" => d \notin readers


\* The last Role.Move call returned one of the two errors of its own tests.
MoveRejected ==
    moved.err \in {"ErrRolePositionBounds", "ErrUnmovableDefaultRole"}

\* C19: a Role.Move call that fails with ErrRolePositionBounds or with
\* ErrUnmovableDefaultRole leaves the position of every role of the guild
\* unchanged and hands no edit to GuildRoleReorder.
C19_RejectedMoveChangesNothing ==
    MoveRejected =>
        /\ \A x \in DOMAIN position : position[x] = moved.before[x]
        /\ moved.edits = <<>>
        /\ ~moved.sent

\* A call was rejected in a guild where some other role stood between the
\* role and the target.
C19_Witness ==
    /\ MoveRejected
    /\ \E x \in Affected : x # moved.role
    /\ moved.target # moved.before[moved.role]

\* C20: a successful Role.Move changes the position only of roles whose
\* position before the call lay in [min, max]; the batch handed to
\* GuildRoleReorder names every role whose position changed, names no role
\* twice, and gives each role it names the position the role has in memory
\* after the call.
C20_MoveFrame ==
    MoveSucceeded =>
        /\ \A x \in DOMAIN position \ Affected : position[x] = moved.before[x]
        /\ \A x \in DOMAIN position :
              position[x] # moved.before[x] =>
                  \E i \in 1..Len(moved.edits) : moved.edits[i][1] = x
        /\ \A i, j \in 1..Len(moved.edits) :
              i # j => moved.edits[i][1] # moved.edits[j][1]
        /\ \A i \in 1..Len(moved.edits) :
              position[moved.edits[i][1]] = moved.edits[i][2]

\* A successful call repositioned two roles or more and left a role outside
\* [min, max] alone.
C20_Witness ==
    /\ MoveSucceeded
    /\ DOMAIN position \ Affected # {}
    /\ \E x, y \in Affected :
          x # y /\ position[x] # moved.before[x] /\ position[y] # moved.before[y]

==========================================================================
